---------------------------- MODULE Spec2Model ----------------------------
(***************************************************************************)
(* A model of sgpt.py: the command line front end whose invocations read   *)
(* and write three files,                                                  *)
(*   ~/.config/shell-gpt/config.yml       (KEY_FILE)                       *)
(*   ~/.config/shell-gpt/fact_memory.txt  (FACT_MEMORY_FILE, Fact Store)   *)
(*   ./.inst_memory.json                  (Interaction Store)              *)
(* One behaviour is a sequence of invocations of main() by a single user,  *)
(* one process at a time.  An invocation is a sequence of steps; a step is *)
(* a stretch of main() between two points where the process can end (by    *)
(* return, by an uncaught exception, or by being killed while a store file *)
(* is open for writing).                                                   *)
(*                                                                         *)
(* Text is a sequence of characters (one-character strings); a few fixed   *)
(* texts of the program are kept as one chunk.  The completion API, the    *)
(* relevance filter, the editor and the terminal are external: a call to   *)
(* them either raises or returns a value drawn from a small set.  The      *)
(* options that only shape the request or the rendering (--code, --model,  *)
(* --max-tokens, --temperature, --animation, --spinner, --execute) touch   *)
(* no file and are left out of the inputs.                                 *)
(***************************************************************************)
EXTENDS Integers, Sequences, FiniteSets, TLC

\* ------------------------------------------------------------------ bounds
\* Invocations per behaviour of Spec.
MaxRuns == 3
\* Invocations per behaviour of SpecDispatch.
DispatchRuns == 2
\* Options set together in one invocation of SpecDispatch.
MaxFlags == 2

\* -------------------------------------------------------------------- text
\* Python's None, as a prompt: no text is equal to it.
None == <<"None">>

DecimalDigits == {"0", "1", "2", "3", "4", "5", "6", "7", "8", "9"}

\* Characters for which str.isdigit() holds: the decimal digits and the
\* other characters of Unicode's Numeric_Type=Digit, such as SUPERSCRIPT TWO.
UnicodeDigits == DecimalDigits \cup {"^2"}

DigitChar(d) ==
  CASE d = 0 -> "0" [] d = 1 -> "1" [] d = 2 -> "2" [] d = 3 -> "3" [] d = 4 -> "4"
    [] d = 5 -> "5" [] d = 6 -> "6" [] d = 7 -> "7" [] d = 8 -> "8" [] d = 9 -> "9"

DigitVal(c) ==
  CASE c = "0" -> 0 [] c = "1" -> 1 [] c = "2" -> 2 [] c = "3" -> 3 [] c = "4" -> 4
    [] c = "5" -> 5 [] c = "6" -> 6 [] c = "7" -> 7 [] c = "8" -> 8 [] c = "9" -> 9

\* str(n) for 0 <= n.
RECURSIVE Str(_)
Str(n) == IF n < 10 THEN <<DigitChar(n)>> ELSE Str(n \div 10) \o <<DigitChar(n % 10)>>

\* `not prompt`: None and the empty string are falsy.
Falsy(p) == p = None \/ p = <<>>

\* prompt.isdigit(), for a prompt that is a string.
IsDigit(s) == s # <<>> /\ \A i \in 1..Len(s) : s[i] \in UnicodeDigits

\* int(s) raises ValueError unless every character is a decimal digit
\* (for the strings isdigit() lets through).
IntRaises(s) == \E i \in 1..Len(s) : s[i] \notin DecimalDigits

RECURSIVE IntOf(_)
IntOf(s) == IF s = <<>> THEN 0 ELSE 10 * IntOf(SubSeq(s, 1, Len(s) - 1)) + DigitVal(s[Len(s)])

Whitespace == {" ", "\n"}

\* str.strip()
RECURSIVE Strip(_)
Strip(s) ==
  IF s = <<>> THEN s
  ELSE IF s[1] \in Whitespace THEN Strip(Tail(s))
  ELSE IF s[Len(s)] \in Whitespace THEN Strip(SubSeq(s, 1, Len(s) - 1))
  ELSE s

\* strftime("%H:%M:%S %d/%m/%Y", t)
Pad2(n) == <<DigitChar(n \div 10), DigitChar(n % 10)>>

Pad4(n) == Pad2(n \div 100) \o Pad2(n % 100)

StrfTime(t) ==
  Pad2(t.hour) \o <<":">> \o Pad2(t.min) \o <<":">> \o Pad2(t.sec) \o <<" ">>
    \o Pad2(t.mday) \o <<"/">> \o Pad2(t.mon) \o <<"/">> \o Pad4(t.year)

\* Readings of gmtime().
GmTimes == {[hour |-> 9, min |-> 5, sec |-> 0, mday |-> 4, mon |-> 11, year |-> 2026]}

\* ------------------------------------------------------------------- files
NoFile == [exists |-> FALSE, text |-> <<>>]

File(t) == [exists |-> TRUE, text |-> t]

\* The tokens of the JSON text of the Interaction Store.
LBracket == [tok |-> "["]

RBracket == [tok |-> "]"]

ObjectTok(d) == [tok |-> "{}", value |-> d]

\* json.dumps(data, indent=4) of a list of dictionaries.
JsonDumps(data) ==
  <<LBracket>> \o [i \in 1..Len(data) |-> ObjectTok(data[i])] \o <<RBracket>>

\* json.load raises JSONDecodeError unless the text is one complete value.
JsonRaises(text) ==
  \/ Len(text) < 2
  \/ text[1] # LBracket
  \/ text[Len(text)] # RBracket
  \/ \E i \in 2..(Len(text) - 1) : text[i].tok # "{}"

JsonLoad(text) == [i \in 1..(Len(text) - 2) |-> text[i + 1].value]

Prefixes(s) == {SubSeq(s, 1, n) : n \in 0..Len(s)}

\* ------------------------------------------------------------------ inputs
FlagNames ==
  {"add_instruction", "clear_facts", "memorize_fact", "retrieve_fact", "cache",
   "shell", "editor", "favorite", "set_history", "set_openai_api_key",
   "set_hugging_face_api_key", "ls_common", "ls_history", "ls_memory"}

TextPrompts == {None, <<>>, <<"l", "s">>}

CachePrompts ==
  {None, <<"l", "s">>, <<"^2">>, <<"0", "0">>} \cup {Str(i) : i \in 0..MaxRuns}

PromptsFor(f) == IF "cache" \in f THEN CachePrompts ELSE TextPrompts

Inputs(flagSets) ==
  UNION {{[flags |-> f, prompt |-> p] : p \in PromptsFor(f)} : f \in flagSets}

\* One option at a time, and the pairs whose second option changes what the
\* first one does.
StoreFlagSets ==
  {{}} \cup {{f} : f \in FlagNames}
    \cup {{"shell", "favorite"}, {"shell", "editor"}, {"cache", "editor"},
          {"editor", "ls_memory"}}

AllFlagSets == {f \in SUBSET FlagNames : Cardinality(f) <= MaxFlags}

\* What the external collaborators return.
Responses == {<<" ", "l", "s">>, <<"d", "u", "\n">>}

EditedPrompts == {<<"d", "f">>}

ShellSuffix == <<". Provide only shell command as output.">>

\* ------------------------------------------------------------------- state
VARIABLES
  configDir,        \* ~/.config/shell-gpt exists
  keyFile,          \* KEY_FILE: [exists, keys]
  factMemoryFile,   \* FACT_MEMORY_FILE: [exists, text]
  instMemoryFile,   \* .inst_memory.json: [exists, text]
  pc,               \* where the running invocation is, or how the last one ended
  flags,            \* main's options that are set
  prompt,           \* main's prompt
  fact,             \* save_fact's argument
  data,             \* the list json.load returned
  response_text,    \* the completion
  stdout,           \* what the invocation printed, in order
  raised,           \* the uncaught exception that ended the invocation, or ""
  ops,              \* history: the store operations the invocation has begun
  started,          \* history: the two stores when the invocation started
  runs              \* history: invocations started

vars ==
  <<configDir, keyFile, factMemoryFile, instMemoryFile, pc, flags, prompt, fact,
    data, response_text, stdout, raised, ops, started, runs>>

files == <<configDir, keyFile, factMemoryFile, instMemoryFile>>

locals == <<flags, prompt, fact, data, response_text>>

\* How an invocation ends.
Ended == {"returned", "raised", "killed"}

\* The stretches of an invocation during which a store file is open for writing.
Writing == {"save_fact_write", "wm_open", "wm_write", "wm_close"}

\* ------------------------------------------------------------------ config
\* create_config(): the directory is made and the file holds the one key.
CreateConfig == [exists |-> TRUE, keys |-> {"openai_api_key"}]

\* KEY_FILE after `if not KEY_FILE.exists(): create_config()`.
EnsureConfig(kf) == IF kf.exists THEN kf ELSE CreateConfig

\* get_config(key) raises UsageError when the file has no such key.
GetConfigRaises(kf, key) == key \notin EnsureConfig(kf).keys

\* update_config(key, value)
UpdateConfig(kf, key) == [exists |-> TRUE, keys |-> EnsureConfig(kf).keys \cup {key}]

\* ---------------------------------------------------------------- dispatch
\* Mutant of Branch: memorize is tested before clear-facts.
BranchMemorizeFirst(f, p) ==
  IF "add_instruction" \in f THEN "add_instruction"
  ELSE IF "memorize_fact" \in f THEN "memorize_fact"
  ELSE IF "clear_facts" \in f THEN "clear_facts"
  ELSE IF "retrieve_fact" \in f THEN "retrieve_fact"
  ELSE IF Falsy(p) /\ "editor" \notin f THEN "settings"
  ELSE IF "cache" \in f THEN "cache"
  ELSE "completion"

\* The branch of main() an invocation takes: the chain of `if ...: return`.
Branch(f, p) ==
  IF "add_instruction" \in f THEN "add_instruction"
  ELSE IF "clear_facts" \in f THEN "clear_facts"
  ELSE IF "memorize_fact" \in f THEN "memorize_fact"
  ELSE IF "retrieve_fact" \in f THEN "retrieve_fact"
  ELSE IF Falsy(p) /\ "editor" \notin f THEN "settings"
  ELSE IF "cache" \in f THEN "cache"
  ELSE "completion"

\* Mutant of ReversedIndex: the index is used as it is given.
ReversedIndexForward(N, i) == i

\* reversed_index = N - int(prompt) - 1
ReversedIndex(N, i) == N - i - 1

\* The dictionary write_to_memory builds.
Dictionary(input_text, output_text, name, favorite) ==
  [input |-> input_text, output |-> output_text, name |-> name,
   favorite |-> favorite, uid |-> FALSE]

\* Mutant of OutOfRange: the index N passes.
OutOfRangeStrict(i, N) == i > N

\* int(prompt) >= N
OutOfRange(i, N) == i >= N

\* data[k] of a Python list: a negative k counts from the end.
IndexRaises(list, k) == k >= Len(list) \/ k < -Len(list)

Index(list, k) == IF k >= 0 THEN list[k + 1] ELSE list[Len(list) + k + 1]

\* Mutant of ListAppend: the new record goes to the front.
ListPrepend(list, d) == <<d>> \o list

\* data.append(dictionary)
ListAppend(list, d) == Append(list, d)

\* Mutant of OpenReadPlus: mode "w+", which creates or truncates the file.
OpenWritePlus(f) == [raised |-> "", file |-> File(<<>>)]

\* Mutant of OpenReadPlus: mode "a+", which creates the file when it is absent.
OpenAppendPlus(f) == [raised |-> "", file |-> IF f.exists THEN f ELSE File(<<>>)]

\* open(".inst_memory.json", "r+"): FileNotFoundError when the file is absent;
\* the file is neither created nor truncated.
OpenReadPlus(f) ==
  IF f.exists THEN [raised |-> "", file |-> f]
  ELSE [raised |-> "FileNotFoundError", file |-> f]

\* Mutant of ClearFactMemory: unlink without the test.
ClearFactMemoryUnguarded(f) ==
  IF f.exists THEN [raised |-> "", file |-> NoFile]
  ELSE [raised |-> "FileNotFoundError", file |-> f]

\* clear_fact_memory(): unlink the file if it exists.
ClearFactMemory(f) ==
  IF f.exists THEN [raised |-> "", file |-> NoFile] ELSE [raised |-> "", file |-> f]

\* Mutant of OpenAppend: mode "w", which truncates the file.
OpenTruncate(f) == File(<<>>)

\* open(FACT_MEMORY_FILE, "a"): the file is created empty when absent.
OpenAppend(f) == IF f.exists THEN f ELSE File(<<>>)

\* The text of the fact file after file.write(fact + "\n") and the close.
WriteFact(f, line) == File(f.text \o line \o <<"\n">>)

\* ------------------------------------------------------------------- steps
Return == pc' = "returned" /\ raised' = ""

Raise(exc) == pc' = "raised" /\ raised' = exc

\* Before the first invocation.  The program never creates .inst_memory.json:
\* it is absent, or the user has put an empty list there.  The key file is
\* absent, as create_config or update_config left it, or edited by hand so
\* that the API key is gone (the case get_config raises UsageError for).
Init ==
  /\ configDir \in BOOLEAN
  /\ keyFile \in {[exists |-> FALSE, keys |-> {}], [exists |-> TRUE, keys |-> {}],
                  CreateConfig, UpdateConfig(CreateConfig, "hugging_face_api_key")}
  /\ keyFile.exists => configDir
  /\ factMemoryFile = NoFile
  /\ instMemoryFile \in {NoFile, File(JsonDumps(<<>>))}
  /\ pc = "none"
  /\ flags = {}
  /\ prompt = None
  /\ fact = <<>>
  /\ data = <<>>
  /\ response_text = <<>>
  /\ stdout = <<>>
  /\ raised = ""
  /\ ops = {}
  /\ started = [fact |-> factMemoryFile, inst |-> instMemoryFile]
  /\ runs = 0

\* A new process: typer binds the options, then main() reads the API key.
Start(inputs, cap) ==
  /\ pc = "none"
  /\ runs < cap
  /\ \E in \in inputs : flags' = in.flags /\ prompt' = in.prompt
  /\ runs' = runs + 1
  /\ started' = [fact |-> factMemoryFile, inst |-> instMemoryFile]
  /\ ops' = {}
  /\ stdout' = <<>>
  /\ fact' = <<>>
  /\ data' = <<>>
  /\ response_text' = <<>>
  /\ keyFile' = EnsureConfig(keyFile)
  /\ configDir' = (configDir \/ ~keyFile.exists)
  /\ IF GetConfigRaises(keyFile, "openai_api_key")
       THEN Raise("UsageError")
       ELSE pc' = "main" /\ raised' = ""
  /\ UNCHANGED <<factMemoryFile, instMemoryFile>>

StartStore == Start(Inputs(StoreFlagSets), MaxRuns)

StartDispatch == Start(Inputs(AllFlagSets), DispatchRuns)

\* if add_instruction: the instruction prompt is read and joined to the prompt.
AddInstruction ==
  /\ pc = "main"
  /\ Branch(flags, prompt) = "add_instruction"
  /\ stdout' = Append(stdout, <<"Adding new instruction...">>)
  /\ IF prompt = None
       THEN Raise("TypeError")
       ELSE pc' = "ai_request" /\ raised' = ""
  /\ UNCHANGED <<files, locals, ops, started, runs>>

\* The request of the add_instruction branch, the confirmation, temp.py.
AddInstructionRequest ==
  /\ pc = "ai_request"
  /\ \/ /\ Raise("HTTPError")
        /\ UNCHANGED <<response_text, stdout>>
     \/ \E r \in Responses :
          /\ response_text' = Strip(r)
          /\ stdout' = Append(stdout, Strip(r))
          /\ Return
  /\ UNCHANGED <<files, flags, prompt, fact, data, ops, started, runs>>

\* if clear_facts: clear_fact_memory(); return
ClearFacts ==
  /\ pc = "main"
  /\ Branch(flags, prompt) = "clear_facts"
  /\ factMemoryFile' = ClearFactMemory(factMemoryFile).file
  /\ ops' = ops \cup {"clearFacts"}
  /\ IF ClearFactMemory(factMemoryFile).raised = ""
       THEN Return
       ELSE Raise(ClearFactMemory(factMemoryFile).raised)
  /\ UNCHANGED <<configDir, keyFile, instMemoryFile, locals, stdout, started, runs>>

\* if memorize_fact: the line is built; save_fact() up to the open.
MemorizeFact ==
  /\ pc = "main"
  /\ Branch(flags, prompt) = "memorize_fact"
  /\ IF prompt = None
       THEN /\ Raise("TypeError")
            /\ UNCHANGED <<configDir, factMemoryFile, fact, ops>>
       ELSE /\ \E t \in GmTimes : fact' = StrfTime(t) \o <<" ">> \o prompt
            /\ configDir' = (configDir \/ ~factMemoryFile.exists)
            /\ factMemoryFile' = OpenAppend(factMemoryFile)
            /\ ops' = ops \cup {"memorizeFact"}
            /\ pc' = "save_fact_write"
            /\ raised' = ""
  /\ UNCHANGED <<keyFile, instMemoryFile, flags, prompt, data, response_text,
                 stdout, started, runs>>

\* file.write(fact + "\n") and the end of the with block.
SaveFactWrite ==
  /\ pc = "save_fact_write"
  /\ factMemoryFile' = WriteFact(factMemoryFile, fact)
  /\ Return
  /\ UNCHANGED <<configDir, keyFile, instMemoryFile, locals, stdout, ops, started, runs>>

\* if retrieve_fact: up to the prompt that is sent.
RetrieveFact ==
  /\ pc = "main"
  /\ Branch(flags, prompt) = "retrieve_fact"
  /\ ops' = ops \cup {"retrieveFact"}
  /\ IF ~factMemoryFile.exists
       THEN /\ stdout' = Append(stdout, <<"No facts have been memorized yet.">>)
            /\ Return
       ELSE /\ UNCHANGED stdout
            /\ IF GetConfigRaises(keyFile, "hugging_face_api_key")
                 THEN Raise("UsageError")
                 ELSE \/ Raise("FilterError")
                      \/ pc' = "rf_request" /\ raised' = ""
  /\ UNCHANGED <<files, locals, started, runs>>

\* The request of the retrieve branch and the writing of its answer.
RetrieveRequest ==
  /\ pc = "rf_request"
  /\ \/ /\ Raise("HTTPError")
        /\ UNCHANGED <<response_text, stdout>>
     \/ \E r \in Responses :
          /\ response_text' = Strip(r)
          /\ stdout' = Append(stdout, Strip(r))
          /\ Return
  /\ UNCHANGED <<files, flags, prompt, fact, data, ops, started, runs>>

\* if not prompt and not editor: the chain of settings and listings.
Settings ==
  /\ pc = "main"
  /\ Branch(flags, prompt) = "settings"
  /\ IF "set_history" \in flags
       THEN /\ keyFile' = UpdateConfig(keyFile, "history_length")
            /\ stdout' = Append(stdout, <<"History length set.">>)
            /\ Return
            /\ UNCHANGED ops
     ELSE IF "set_openai_api_key" \in flags
       THEN /\ keyFile' = UpdateConfig(keyFile, "openai_api_key")
            /\ stdout' = Append(stdout, <<"OpenAI API key set.">>)
            /\ Return
            /\ UNCHANGED ops
     ELSE IF "set_hugging_face_api_key" \in flags
       THEN /\ keyFile' = UpdateConfig(keyFile, "hugging_face_api_key")
            /\ stdout' = Append(stdout, <<"Hugging Face API key set.">>)
            /\ Return
            /\ UNCHANGED ops
     ELSE IF "ls_common" \in flags \/ "ls_history" \in flags
       THEN /\ Return
            /\ UNCHANGED <<keyFile, stdout, ops>>
     ELSE IF "ls_memory" \in flags
       THEN /\ ops' = ops \cup {"listMemory"}
            /\ IF ~factMemoryFile.exists
                 THEN Raise("FileNotFoundError") /\ UNCHANGED stdout
                 ELSE stdout' = Append(stdout, factMemoryFile.text) /\ Return
            /\ UNCHANGED keyFile
     ELSE /\ Raise("MissingParameter")
          /\ UNCHANGED <<keyFile, stdout, ops>>
  /\ UNCHANGED <<configDir, factMemoryFile, instMemoryFile, locals, started, runs>>

\* if cache: the lookup by reverse index.
CacheRecall ==
  /\ pc = "main"
  /\ Branch(flags, prompt) = "cache"
  /\ IF prompt = None
       THEN /\ Raise("AttributeError")
            /\ UNCHANGED <<instMemoryFile, data, stdout, ops>>
     ELSE IF ~IsDigit(prompt)
       THEN /\ stdout' = Append(stdout, <<"need to implement lol">>)
            /\ Return
            /\ UNCHANGED <<instMemoryFile, data, ops>>
     ELSE /\ ops' = ops \cup {"recallByIndex"}
          /\ instMemoryFile' = OpenReadPlus(instMemoryFile).file
          /\ IF OpenReadPlus(instMemoryFile).raised # ""
               THEN /\ Raise(OpenReadPlus(instMemoryFile).raised)
                    /\ UNCHANGED <<data, stdout>>
             ELSE IF JsonRaises(instMemoryFile'.text)
               THEN /\ Raise("JSONDecodeError")
                    /\ UNCHANGED <<data, stdout>>
             ELSE /\ data' = JsonLoad(instMemoryFile'.text)
                  /\ IF IntRaises(prompt)
                       THEN Raise("ValueError") /\ UNCHANGED stdout
                     ELSE IF OutOfRange(IntOf(prompt), Len(data'))
                       THEN /\ stdout' = Append(stdout, <<"Index is out of range">>)
                            /\ Return
                     ELSE IF IndexRaises(data', ReversedIndex(Len(data'), IntOf(prompt)))
                       THEN Raise("IndexError") /\ UNCHANGED stdout
                     ELSE /\ stdout' =
                               Append(stdout,
                                      Index(data', ReversedIndex(Len(data'), IntOf(prompt))).output)
                          /\ Return
  /\ UNCHANGED <<configDir, keyFile, factMemoryFile, flags, prompt, fact,
                 response_text, started, runs>>

\* The completion branch up to the request: the prompt that is sent.
Completion ==
  /\ pc = "main"
  /\ Branch(flags, prompt) = "completion"
  /\ IF "editor" \in flags
       THEN prompt' \in EditedPrompts
       ELSE IF "shell" \in flags
         THEN prompt' = prompt \o ShellSuffix
         ELSE prompt' = prompt
  /\ pc' = "request"
  /\ raised' = ""
  /\ UNCHANGED <<files, flags, fact, data, response_text, stdout, ops, started, runs>>

\* openai_request, strip, typer_writer; then `if shell:`.
Request ==
  /\ pc = "request"
  /\ \/ /\ Raise("HTTPError")
        /\ UNCHANGED <<response_text, stdout>>
     \/ \E r \in Responses :
          /\ response_text' = Strip(r)
          /\ stdout' = Append(stdout, Strip(r))
          /\ raised' = ""
          /\ pc' = IF "shell" \in flags THEN "write_to_memory" ELSE "returned"
  /\ UNCHANGED <<files, flags, prompt, fact, data, ops, started, runs>>

\* write_to_memory: the dictionary, the load and the append to the list.
WmLoad ==
  /\ pc = "write_to_memory"
  /\ ops' = ops \cup {"remember"}
  /\ instMemoryFile' = OpenReadPlus(instMemoryFile).file
  /\ IF OpenReadPlus(instMemoryFile).raised # ""
       THEN Raise(OpenReadPlus(instMemoryFile).raised) /\ UNCHANGED data
     ELSE IF JsonRaises(instMemoryFile'.text)
       THEN Raise("JSONDecodeError") /\ UNCHANGED data
     ELSE /\ data' = ListAppend(JsonLoad(instMemoryFile'.text),
                                Dictionary(prompt, response_text, "bro",
                                           "favorite" \in flags))
          /\ pc' = "wm_open"
          /\ raised' = ""
  /\ UNCHANGED <<configDir, keyFile, factMemoryFile, flags, prompt, fact,
                 response_text, stdout, started, runs>>

\* open(".inst_memory.json", "w+"): the file is truncated.
WmOpen ==
  /\ pc = "wm_open"
  /\ instMemoryFile' = File(<<>>)
  /\ pc' = "wm_write"
  /\ UNCHANGED <<configDir, keyFile, factMemoryFile, locals, stdout, raised, ops,
                 started, runs>>

\* jsonFile.write(...): the text goes to the buffer, which passes on to the
\* file what no longer fits in it.
WmWrite ==
  /\ pc = "wm_write"
  /\ \E flushed \in Prefixes(JsonDumps(data)) : instMemoryFile' = File(flushed)
  /\ pc' = "wm_close"
  /\ UNCHANGED <<configDir, keyFile, factMemoryFile, locals, stdout, raised, ops,
                 started, runs>>

\* jsonFile.close(): the rest of the buffer reaches the file; main returns.
WmClose ==
  /\ pc = "wm_close"
  /\ instMemoryFile' = File(JsonDumps(data))
  /\ Return
  /\ UNCHANGED <<configDir, keyFile, factMemoryFile, locals, stdout, ops, started, runs>>

\* The process is killed while a store file is open for writing.
Interrupt ==
  /\ pc \in Writing
  /\ pc' = "killed"
  /\ UNCHANGED <<files, locals, stdout, raised, ops, started, runs>>

\* The process is gone, and with it main's variables and the terminal output.
Exit ==
  /\ pc \in Ended
  /\ pc' = "none"
  /\ flags' = {}
  /\ prompt' = None
  /\ fact' = <<>>
  /\ data' = <<>>
  /\ response_text' = <<>>
  /\ stdout' = <<>>
  /\ raised' = ""
  /\ ops' = {}
  /\ started' = [fact |-> factMemoryFile, inst |-> instMemoryFile]
  /\ UNCHANGED <<files, runs>>

Steps ==
  \/ AddInstruction
  \/ AddInstructionRequest
  \/ ClearFacts
  \/ MemorizeFact
  \/ SaveFactWrite
  \/ RetrieveFact
  \/ RetrieveRequest
  \/ Settings
  \/ CacheRecall
  \/ Completion
  \/ Request
  \/ WmLoad
  \/ WmOpen
  \/ WmWrite
  \/ WmClose
  \/ Interrupt
  \/ Exit

Next == StartStore \/ Steps

Spec == Init /\ [][Next]_vars

\* An installation that has both keys and an empty Interaction Store.
InitDispatch ==
  /\ Init
  /\ keyFile = UpdateConfig(CreateConfig, "hugging_face_api_key")
  /\ instMemoryFile.exists

NextDispatch == StartDispatch \/ Steps

SpecDispatch == InitDispatch /\ [][NextDispatch]_vars

\* ------------------------------------------------------------------ claims
IsPrefix(s, t) == Len(s) <= Len(t) /\ SubSeq(t, 1, Len(s)) = s

\* The Interaction Store as a list, for a file that holds one.
Holds(f) == f.exists /\ ~JsonRaises(f.text)

Records(f) == JsonLoad(f.text)

OutOfRangeMessage == <<"Index is out of range">>

\* C1: a lookup by index i on a store of N records, 0 <= i < N, prints the
\* output of the record at place N - i of the insertion order counted from 1
\* (N - i - 1 counted from 0): index 0 is the last record appended and index
\* N - 1 the first.
C1_ReverseIndexLaw ==
  ( /\ pc \in Ended
    /\ "recallByIndex" \in ops
    /\ Holds(started.inst)
    /\ ~IntRaises(prompt)
    /\ IntOf(prompt) < Len(Records(started.inst)) )
  => /\ pc = "returned"
     /\ stdout =
          <<Records(started.inst)[Len(Records(started.inst)) - IntOf(prompt)].output>>

C1_Witness ==
  /\ pc = "returned"
  /\ "recallByIndex" \in ops
  /\ Holds(started.inst)
  /\ Len(Records(started.inst)) = 2
  /\ IntOf(prompt) = 0
  /\ Records(started.inst)[1].output # Records(started.inst)[2].output
  /\ stdout = <<Records(started.inst)[2].output>>

\* C2: a lookup by index i >= N on a store of N records (N = 0 included)
\* prints the out-of-range message and returns: no record is printed and no
\* exception ends the process.
C2_OutOfRange ==
  ( /\ pc \in Ended
    /\ "recallByIndex" \in ops
    /\ Holds(started.inst)
    /\ ~IntRaises(prompt)
    /\ IntOf(prompt) >= Len(Records(started.inst)) )
  => /\ pc = "returned"
     /\ raised = ""
     /\ stdout = <<OutOfRangeMessage>>

C2_Witness ==
  /\ pc = "returned"
  /\ "recallByIndex" \in ops
  /\ Holds(started.inst)
  /\ Len(Records(started.inst)) = 2
  /\ IntOf(prompt) = 2
  /\ stdout = <<OutOfRangeMessage>>

\* C3: an append that runs to its end leaves the old list followed by the one
\* new record, and whenever the file holds a list during or after an
\* invocation, the list the invocation found is a prefix of it.
C3_AppendMonotonic ==
  /\ (pc = "returned" /\ "remember" \in ops)
       => /\ Holds(started.inst)
          /\ Holds(instMemoryFile)
          /\ Len(Records(instMemoryFile)) = Len(Records(started.inst)) + 1
          /\ IsPrefix(Records(started.inst), Records(instMemoryFile))
          /\ Records(instMemoryFile)[Len(Records(instMemoryFile))].input = prompt
          /\ Records(instMemoryFile)[Len(Records(instMemoryFile))].output = response_text
  /\ (Holds(started.inst) /\ Holds(instMemoryFile))
       => IsPrefix(Records(started.inst), Records(instMemoryFile))

C3_Witness ==
  /\ pc = "returned"
  /\ "remember" \in ops
  /\ Len(Records(started.inst)) = 1
  /\ Len(Records(instMemoryFile)) = 2
  /\ Records(instMemoryFile)[1] # Records(instMemoryFile)[2]

\* C4: at every point of an append the file holds the complete old list or
\* the complete new one.
C4_AtomicRewrite ==
  ("remember" \in ops /\ Holds(started.inst))
    => \/ instMemoryFile = started.inst
       \/ /\ Holds(instMemoryFile)
          /\ Len(Records(instMemoryFile)) = Len(Records(started.inst)) + 1
          /\ IsPrefix(Records(started.inst), Records(instMemoryFile))

\* C5: an append to a store whose file is missing or holds no valid JSON
\* ends with FileNotFoundError or JSONDecodeError, and the file is as it was:
\* not created, not modified.
C5_NoCreateIfAbsent ==
  ("remember" \in ops /\ ~Holds(started.inst))
    => /\ pc = "raised"
       /\ raised = (IF started.inst.exists THEN "JSONDecodeError" ELSE "FileNotFoundError")
       /\ instMemoryFile = started.inst
       /\ factMemoryFile = started.fact

C5_Witness ==
  /\ "remember" \in ops
  /\ ~started.inst.exists
  /\ raised = "FileNotFoundError"
  /\ ~instMemoryFile.exists

\* C6: with no fact file, the retrieve path and the list-memory path both end
\* without an exception.
C6_ReadAbsentNeverFails ==
  ( /\ pc \in Ended
    /\ ~started.fact.exists
    /\ ops \cap {"retrieveFact", "listMemory"} # {} )
  => pc = "returned" /\ raised = ""

\* The appended text of a memorize that returned.
NewLine == SubSeq(factMemoryFile.text, Len(started.fact.text) + 1, Len(factMemoryFile.text))

\* C7: a memorize of X is not ended by an exception, and once it has
\* returned the fact file exists and its text is the text it had before
\* (empty when absent) followed by the one line HH:MM:SS DD/MM/YYYY X.
C7_FactAppendOnly ==
  "memorizeFact" \in ops
    => /\ pc \in {"save_fact_write", "returned", "killed"}
       /\ raised = ""
       /\ IsPrefix(started.fact.text, factMemoryFile.text)
       /\ pc = "returned"
            => /\ factMemoryFile.exists
               /\ Len(NewLine) = 20 + Len(prompt) + 1
               /\ \A i \in {1, 2, 4, 5, 7, 8, 10, 11, 13, 14, 16, 17, 18, 19} :
                    NewLine[i] \in DecimalDigits
               /\ NewLine[3] = ":" /\ NewLine[6] = ":" /\ NewLine[9] = " "
               /\ NewLine[12] = "/" /\ NewLine[15] = "/" /\ NewLine[20] = " "
               /\ SubSeq(NewLine, 21, Len(NewLine)) = prompt \o <<"\n">>

C7_Witness ==
  /\ pc = "returned"
  /\ "memorizeFact" \in ops
  /\ started.fact.exists
  /\ started.fact.text # <<>>
  /\ Len(factMemoryFile.text) > Len(started.fact.text)

\* C8: clear-facts returns without an exception whether or not the fact file
\* exists, and after it the file is absent.
C8_ClearIdempotent ==
  "clearFacts" \in ops
    => /\ pc = "returned"
       /\ raised = ""
       /\ ~factMemoryFile.exists

C8_Witness ==
  /\ "clearFacts" \in ops
  /\ pc = "returned"
  /\ ~started.fact.exists
  /\ runs >= 2

\* C9: an invocation on the cache path or the retrieve path leaves both
\* store files as it found them; the fact file differs from what an
\* invocation found only if it memorizes or clears, and the interaction file
\* only if it remembers.
C9_ReadsPreserveStores ==
  /\ (pc # "none" /\ Branch(flags, prompt) \in {"cache", "retrieve_fact"})
       => instMemoryFile = started.inst /\ factMemoryFile = started.fact
  /\ (ops \cap {"recallByIndex", "retrieveFact", "listMemory"} # {})
       => instMemoryFile = started.inst /\ factMemoryFile = started.fact
  /\ factMemoryFile # started.fact => ops \cap {"memorizeFact", "clearFacts"} # {}
  /\ instMemoryFile # started.inst => "remember" \in ops

C9_Witness ==
  /\ pc = "returned"
  /\ "retrieveFact" \in ops
  /\ response_text # <<>>
  /\ factMemoryFile.exists
  /\ Holds(instMemoryFile)
  /\ Len(Records(instMemoryFile)) >= 1

Higher(f, names) == f \cap names # {}

\* main() has read the API key and taken a branch.
Dispatched == pc \notin {"none", "main"} /\ ~(pc = "raised" /\ raised = "UsageError" /\ ops = {})

\* C10 as stated: whenever clear-facts is set it is the operation performed,
\* and likewise down the order clear-facts, memorize, retrieve, cache-recall.
C10_FixedPriority ==
  pc = "returned"
    => /\ "clear_facts" \in flags => ops = {"clearFacts"}
       /\ ("memorize_fact" \in flags /\ "clear_facts" \notin flags)
            => ops = {"memorizeFact"}
       /\ ("retrieve_fact" \in flags /\ ~Higher(flags, {"clear_facts", "memorize_fact"}))
            => ops = {"retrieveFact"}

\* C10 amended: an invocation begins at most one store operation; none with
\* add-instruction set; otherwise the first of clear-facts, memorize and
\* retrieve that is set, else (no prompt and no editor) at most the listing of
\* the fact file, else the cache lookup if cache is set, else the completion,
\* which alone appends a record, in shell mode, after its request returned.
C10_DispatchOrder ==
  /\ Cardinality(ops) <= 1
  /\ "add_instruction" \in flags => ops = {}
  /\ (Dispatched /\ "add_instruction" \notin flags)
       => /\ "clear_facts" \in flags => ops = {"clearFacts"}
          /\ ("memorize_fact" \in flags /\ "clear_facts" \notin flags)
               => (ops = {"memorizeFact"} \/ (prompt = None /\ raised = "TypeError"))
          /\ ("retrieve_fact" \in flags /\ ~Higher(flags, {"clear_facts", "memorize_fact"}))
               => ops = {"retrieveFact"}
  /\ "listMemory" \in ops
       => /\ ~Higher(flags, {"add_instruction", "clear_facts", "memorize_fact",
                             "retrieve_fact"})
          /\ Falsy(prompt) /\ "editor" \notin flags
  /\ "recallByIndex" \in ops
       => /\ ~Higher(flags, {"add_instruction", "clear_facts", "memorize_fact",
                             "retrieve_fact"})
          /\ "cache" \in flags
  /\ "remember" \in ops
       => /\ ~Higher(flags, {"add_instruction", "clear_facts", "memorize_fact",
                             "retrieve_fact", "cache"})
          /\ "shell" \in flags
          /\ response_text \in {Strip(r) : r \in Responses}
          /\ stdout = <<response_text>>

C10_Witness ==
  /\ pc = "returned"
  /\ {"clear_facts", "memorize_fact"} \subseteq flags
  /\ ops = {"clearFacts"}
  /\ started.fact.exists
  /\ ~factMemoryFile.exists

====
